---- MODULE Spec2Model ----
(***************************************************************************)
(* MultiTenantPOS: the connection factory (server/config.ts, second        *)
(* revision, lines 103-189) and the dual-engine DatabaseStorage            *)
(* (server/storage.ts, lines 853-1235), with the sale transaction.         *)
(*                                                                         *)
(* Every storage method is an async function.  A method that issues one    *)
(* statement is one action.  createSale issues a select, then a            *)
(* transaction of two statements; other requests run between its awaits,   *)
(* so it is a process with one action per database round trip.             *)
(***************************************************************************)
EXTENDS Integers, Sequences, FiniteSets, TLC

\* ------------------------------------------------------------------ bounds
NumSaleCalls == 2          \* createSale invocations in one behaviour
MaxItems == 2              \* inventory rows ever inserted
MaxSaleItems == 1          \* of these, rows present while sales run concurrently
MaxQty == 2                \* largest quantity a request carries
MaxPrice == 1              \* largest salePrice a request carries
NumTenants == 2            \* subsidiary ids used as owners
MaxSubsidiaries == 2       \* subsidiary rows ever inserted
MaxUsers == 3              \* user rows ever inserted
MaxAdminRuns == 2          \* ensureDefaultAdmin invocations in one behaviour
MaxLogs == 2               \* activity log rows ever inserted

SaleCalls == 1..NumSaleCalls
ItemIds == 1..MaxItems
TenantIds == 1..NumTenants
\* request bodies reach storage unvalidated (db.ts:197, 209, 231): a
\* quantity may be negative or zero
QtyInputs == (-1)..MaxQty
PriceInputs == 1..MaxPrice

\* ------------------------------------------------------------- constants
Undefined == "undefined"
NoError == ""
ErrItemNotFoundAsStock == "Insufficient stock"
ErrItemNotFound == "Inventory item not found"
ErrInsufficientStock == "Insufficient stock"
ErrMissingFields == "Missing required fields"
ErrNoConnection == "No database connection available"
ErrNotEstablished == "Database connection not yet established"
ErrTaxIdExists == "Tax ID already exists"
ErrTypeError == "TypeError: Cannot read properties of undefined"
PgUniqueViolation == "23505"
MysqlDupEntry == "ER_DUP_ENTRY"
DriverFault == "driver error"
ErrUserNotFound == "User not found"
ErrSubsidiaryNotFound == "Subsidiary not found"
\* subsidiaryId: null, a value apart from every number a request may carry
NullId == -2

EngineEnvValues == {"", "postgresql", "mysql", "oracle"}
InitFailures == {"DATABASE_URL must be set", "Unsupported database engine", DriverFault}

VARIABLES
    dbEngineEnv,     \* process.env.DB_ENGINE ("" when unset)
    databaseUrl,     \* process.env.DATABASE_URL is set
    procState,       \* "starting" | "running" | "exited"
    exitCode,        \* argument of process.exit, -1 while alive
    initError,       \* the error createDbConnection rejected with, "" if none
    db,              \* the exported handle: Undefined or the engine connected
    users,           \* table users
    subsidiaries,    \* table subsidiaries, in insertion order
    inventory,       \* table inventory: id -> row
    nextItemId,      \* serial of inventory.id
    sales,           \* table sales, in insertion order
    saleCall,        \* per createSale invocation: position, arguments, locals
    lastCall,        \* outcome of the last single-statement storage call
    sessionStore,    \* storage.sessionStore: "postgres" or "memory"
    nextUserId,      \* serial of users.id
    activityLogs,    \* table activity_logs, in insertion order
    adminRun,        \* ensureDefaultAdmin: the start-up timer and its run
    userReq          \* the user-management request being handled

vars == <<dbEngineEnv, databaseUrl, procState, exitCode, initError, db, users,
          subsidiaries, inventory, nextItemId, sales, saleCall,
          lastCall, sessionStore, nextUserId, activityLogs, adminRun, userReq>>

\* read once when the modules load: the environment and what the
\* DatabaseStorage constructor derives from it
envVars == <<dbEngineEnv, databaseUrl, sessionStore>>
\* state of the user-management and audit operations
userVars == <<nextUserId, activityLogs, adminRun, userReq>>
connVars == <<procState, exitCode, initError, db>>
saleTables == <<inventory, nextItemId, sales>>

\* ------------------------------------------------------ configuration
\* loadDbConfig: engine is DB_ENGINE, or 'postgresql' when unset
loadDbConfig(env) == IF env = "" THEN "postgresql" ELSE env

config == [engine |-> loadDbConfig(dbEngineEnv)]

\* the type guards look at the configuration, never at their argument
isPostgres(handle) == config.engine = "postgresql"
isMysql(handle) == config.engine = "mysql"

\* ------------------------------------------------------ session store
\* the DatabaseStorage constructor: connect-pg-simple when the engine is
\* postgresql and DATABASE_URL is set, memorystore otherwise
SessionStoreByUrlOnly(engine, url) == IF url THEN "postgres" ELSE "memory"
SessionStoreFor(engine, url) ==
    IF engine = "postgresql" /\ url THEN "postgres" ELSE "memory"

\* ------------------------------------------------------ connection factory
\* createPostgresConnection throws without DATABASE_URL
createPostgresConnection ==
    IF databaseUrl THEN "postgresql" ELSE "DATABASE_URL must be set"

createMysqlConnection == "mysql"

\* the switch of createDbConnection: a connection or the error thrown
createDbConnectionDefaultPg ==
    IF config.engine = "mysql" THEN createMysqlConnection
    ELSE createPostgresConnection
createDbConnection ==
    IF config.engine = "postgresql" THEN createPostgresConnection
    ELSE IF config.engine = "mysql" THEN createMysqlConnection
    ELSE "Unsupported database engine"

\* the .catch handler of the initialisation promise: process.exit(1)
InitCatchLogOnly(state) == [procState |-> "running", exitCode |-> -1]
InitCatch(state) == [procState |-> "exited", exitCode |-> 1]

\* .then((connection) => { db = connection })
InitResolved ==
    /\ procState = "starting"
    /\ createDbConnection \notin InitFailures
    /\ db' = createDbConnection
    /\ procState' = "running"
    /\ UNCHANGED <<envVars, userVars, exitCode, initError, users, subsidiaries,
                   saleTables, saleCall, lastCall>>

\* the promise rejects (thrown by the switch, or by the driver while the
\* pool is built) and the .catch handler runs in the same microtask drain
InitRejected ==
    /\ procState = "starting"
    /\ \E e \in InitFailures :
          /\ e = createDbConnection \/ e = DriverFault
          /\ initError' = e
    /\ procState' = InitCatch(procState).procState
    /\ exitCode' = InitCatch(procState).exitCode
    /\ UNCHANGED <<envVars, userVars, db, users, subsidiaries, saleTables, saleCall,
                   lastCall>>

\* ------------------------------------------------------ storage helpers
\* executeQuery: catch, log, throw error: the error reaches the caller as is
executeQuerySwallow(error) == NoError
executeQuery(error) == error

\* the if (isPostgres(db)) / else if (isMysql(db)) / throw skeleton
EngineBranch ==
    IF isPostgres(db) THEN "postgresql"
    ELSE IF isMysql(db) THEN "mysql"
    ELSE "none"

\* what a branching method throws before its first statement is sent:
\* the final throw, or the TypeError of calling a method on undefined
BranchError ==
    IF EngineBranch = "none" THEN ErrNoConnection
    ELSE IF db = Undefined THEN ErrTypeError
    ELSE NoError

\* the record kept of a finished single-statement call
Called(op, accessed, err, result) ==
    [op |-> op, ready |-> db # Undefined, accessed |-> accessed,
     err |-> executeQuery(err), result |-> result,
     flip |-> 1 - lastCall.flip]

NoCall ==
    [op |-> "none", ready |-> FALSE, accessed |-> FALSE, err |-> NoError,
     result |-> <<>>, flip |-> 0]

Alive == procState # "exited"

\* ------------------------------------------------------ users
\* getUser: select by id, first row or undefined
GetUser(id) ==
    /\ Alive
    /\ LET rows == SelectSeq(users, LAMBDA u : u.id = id)
       IN lastCall' =
             IF BranchError # NoError
             THEN Called("getUser", FALSE, BranchError, <<>>)
             ELSE Called("getUser", TRUE, NoError,
                         IF rows = <<>> THEN <<>> ELSE <<rows[1]>>)
    /\ UNCHANGED <<envVars, userVars, connVars, users, subsidiaries, saleTables,
                   saleCall>>

\* ------------------------------------------------------ subsidiaries
Falsy(v) == v \in {Undefined, ""}

SubsidiaryInputs ==
    [name : {Undefined, "", "Acme"}, taxId : {Undefined, "", "T1", "T2"},
     email : {Undefined, "a@x"}, phoneNumber : {"", "555"}]

\* if (!name || !taxId || !email || !phoneNumber) throw
MissingRequiredNameOnly(s) == Falsy(s.name)
MissingRequired(s) ==
    Falsy(s.name) \/ Falsy(s.taxId) \/ Falsy(s.email) \/ Falsy(s.phoneNumber)

\* the unique constraint on subsidiaries.tax_id
TaxIdTaken(t) == \E i \in 1..Len(subsidiaries) : subsidiaries[i].taxId = t

\* the error the driver raises for the violated constraint
UniqueViolation == IF db = "postgresql" THEN PgUniqueViolation ELSE MysqlDupEntry

SubsidiaryRow(s) ==
    [id |-> Len(subsidiaries) + 1, name |-> s.name, taxId |-> s.taxId,
     email |-> s.email, phoneNumber |-> s.phoneNumber, status |-> TRUE]

\* createSubsidiary: validate, then the engine branch, then the insert
CreateSubsidiary(s) ==
    /\ Alive
    /\ IF MissingRequired(s)
       THEN /\ lastCall' = Called("createSubsidiary", FALSE, ErrMissingFields, <<>>)
            /\ UNCHANGED subsidiaries
       ELSE IF BranchError # NoError
       THEN /\ lastCall' = Called("createSubsidiary", FALSE, BranchError, <<>>)
            /\ UNCHANGED subsidiaries
       ELSE IF TaxIdTaken(s.taxId)
       THEN /\ lastCall' = Called("createSubsidiary", TRUE, UniqueViolation, <<>>)
            /\ UNCHANGED subsidiaries
       ELSE /\ Len(subsidiaries) < MaxSubsidiaries
            /\ subsidiaries' = Append(subsidiaries, SubsidiaryRow(s))
            /\ lastCall' = Called("createSubsidiary", TRUE, NoError,
                                  <<SubsidiaryRow(s)>>)
    /\ UNCHANGED <<envVars, userVars, connVars, users, saleTables, saleCall>>

\* listSubsidiaries: select all rows
ListSubsidiaries ==
    /\ Alive
    /\ lastCall' =
          IF BranchError # NoError
          THEN Called("listSubsidiaries", FALSE, BranchError, <<>>)
          ELSE Called("listSubsidiaries", TRUE, NoError, subsidiaries)
    /\ UNCHANGED <<envVars, userVars, connVars, users, subsidiaries, saleTables,
                   saleCall>>

\* update(subsidiaries).set(subsidiary).where(eq(subsidiaries.id, id))
SetSubsidiary(rows, id, status) ==
    [i \in 1..Len(rows) |->
        IF rows[i].id = id THEN [rows[i] EXCEPT !.status = status] ELSE rows[i]]

\* updateSubsidiary under either engine branch: no row matched is an error
UpdateSubsidiaryResult(branch, rows, id, status) ==
    IF \E i \in 1..Len(rows) : rows[i].id = id
    THEN [err |-> NoError, rows |-> SetSubsidiary(rows, id, status)]
    ELSE [err |-> ErrSubsidiaryNotFound, rows |-> rows]

\* updateSubsidiary(id, {status}): the soft-disable of a subsidiary
UpdateSubsidiary(id, status) ==
    /\ Alive
    /\ IF BranchError # NoError
       THEN /\ lastCall' = Called("updateSubsidiary", FALSE, BranchError, <<>>)
            /\ UNCHANGED subsidiaries
       ELSE LET r == UpdateSubsidiaryResult(EngineBranch, subsidiaries, id, status)
            IN /\ subsidiaries' = r.rows
               /\ lastCall' = Called("updateSubsidiary", TRUE, r.err, <<>>)
    /\ UNCHANGED <<envVars, userVars, connVars, users, saleTables, saleCall>>

\* ------------------------------------------------------ inventory
InventoryRow(id, sub, qty) == [id |-> id, subsidiaryId |-> sub, quantity |-> qty]

\* createInventory: insert the item as given
CreateInventory(sub, qty) ==
    /\ Alive
    /\ IF BranchError # NoError
       THEN /\ lastCall' = Called("createInventory", FALSE, BranchError, <<>>)
            /\ UNCHANGED <<inventory, nextItemId>>
       ELSE /\ nextItemId <= MaxItems
            /\ inventory' = [i \in DOMAIN inventory \cup {nextItemId} |->
                               IF i = nextItemId
                               THEN InventoryRow(nextItemId, sub, qty)
                               ELSE inventory[i]]
            /\ nextItemId' = nextItemId + 1
            /\ lastCall' = Called("createInventory", TRUE, NoError, <<>>)
    /\ UNCHANGED <<envVars, userVars, connVars, users, subsidiaries, sales, saleCall>>

\* updateInventory: set the given quantity; no row matched is an error
\* (no row returned under PostgreSQL, affectedRows === 0 under MySQL)
UpdateInventory(id, qty) ==
    /\ Alive
    /\ IF BranchError # NoError
       THEN /\ lastCall' = Called("updateInventory", FALSE, BranchError, <<>>)
            /\ UNCHANGED inventory
       ELSE IF id \notin DOMAIN inventory
       THEN /\ lastCall' = Called("updateInventory", TRUE, ErrItemNotFound, <<>>)
            /\ UNCHANGED inventory
       ELSE /\ inventory' = [inventory EXCEPT ![id].quantity = qty]
            /\ lastCall' = Called("updateInventory", TRUE, NoError, <<>>)
    /\ UNCHANGED <<envVars, userVars, connVars, users, subsidiaries, nextItemId, sales,
                   saleCall>>

\* deleteInventory under one engine branch: the rows left and the error
\* thrown; only the MySQL branch looks at the number of rows deleted
DeleteInventoryResult(branch, table, id) ==
    [rows |-> [i \in DOMAIN table \ {id} |-> table[i]],
     err |-> IF branch = "mysql" /\ id \notin DOMAIN table
             THEN ErrItemNotFound ELSE NoError]

DeleteInventory(id) ==
    /\ Alive
    /\ IF BranchError # NoError
       THEN /\ lastCall' = Called("deleteInventory", FALSE, BranchError, <<>>)
            /\ UNCHANGED inventory
       ELSE LET r == DeleteInventoryResult(EngineBranch, inventory, id)
            IN /\ inventory' = r.rows
               /\ lastCall' = Called("deleteInventory", TRUE, r.err, <<>>)
    /\ UNCHANGED <<envVars, userVars, connVars, users, subsidiaries, nextItemId, sales,
                   saleCall>>

\* the rows of the table in the order of their ids
RECURSIVE RowsOf(_, _)
RowsOf(table, ids) ==
    IF ids = {} THEN <<>>
    ELSE LET m == CHOOSE i \in ids : \A j \in ids : i <= j
         IN <<table[m]>> \o RowsOf(table, ids \ {m})

\* where(eq(inventory.subsidiaryId, subsidiaryId))
OwnedByAny(row, sub) == TRUE
OwnedBy(row, sub) == row.subsidiaryId = sub

\* listInventoryBySubsidiary: the same select under both branches
ListInventoryBySubsidiary(sub) ==
    /\ Alive
    /\ lastCall' =
          IF BranchError # NoError
          THEN Called("listInventoryBySubsidiary", FALSE, BranchError, <<>>)
          ELSE Called("listInventoryBySubsidiary", TRUE, NoError,
                      SelectSeq(RowsOf(inventory, DOMAIN inventory),
                                LAMBDA r : OwnedBy(r, sub)))
    /\ UNCHANGED <<envVars, userVars, connVars, users, subsidiaries,
                   saleTables, saleCall>>

\* ------------------------------------------------------ activity logs
LogInputs == [subsidiaryId : {NullId, 1}, action : {"sale"}]

\* insert(activityLogs).values(log)
InsertLogOverwrite(rows, log) ==
    IF rows = <<>> THEN <<log>> ELSE [rows EXCEPT ![Len(rows)] = log]
InsertLog(rows, log) == Append(rows, log)

\* createActivityLog: one insert, the driver's error rethrown
CreateActivityLog(log, fault) ==
    /\ Alive
    /\ IF BranchError # NoError
       THEN /\ lastCall' = Called("createActivityLog", FALSE, BranchError, <<>>)
            /\ UNCHANGED activityLogs
       ELSE IF fault # NoError
       THEN /\ lastCall' = Called("createActivityLog", TRUE, fault, <<>>)
            /\ UNCHANGED activityLogs
       ELSE /\ Len(activityLogs) < MaxLogs
            /\ activityLogs' = InsertLog(activityLogs, log)
            /\ lastCall' = Called("createActivityLog", TRUE, NoError, <<>>)
    /\ UNCHANGED <<envVars, connVars, users, subsidiaries, saleTables,
                   saleCall, nextUserId, adminRun, userReq>>

\* the argument of listActivityLogs: left out (undefined), null, or a number
Omitted == -1
LogArgs == {Omitted, NullId, 0} \cup TenantIds

\* if (subsidiaryId): undefined, null and 0 are falsy
SubsidiaryGiven(sub) == sub \notin {Omitted, NullId, 0}

\* listActivityLogs(subsidiaryId?): the rows of the subsidiary when the
\* argument is truthy, all rows otherwise
ListActivityLogs(sub) ==
    /\ Alive
    /\ lastCall' =
          IF BranchError # NoError
          THEN Called("listActivityLogs", FALSE, BranchError, <<>>)
          ELSE Called("listActivityLogs", TRUE, NoError,
                      IF SubsidiaryGiven(sub)
                      THEN SelectSeq(activityLogs,
                                     LAMBDA l : l.subsidiaryId = sub)
                      ELSE activityLogs)
    /\ UNCHANGED <<envVars, userVars, connVars, users, subsidiaries,
                   saleTables, saleCall>>

\* ------------------------------------------------------ createSale
SaleInputs ==
    [itemId : ItemIds, quantity : QtyInputs, salePrice : PriceInputs,
     subsidiaryId : TenantIds]

IdleCall ==
    [pc |-> "idle", call |-> 0, itemId |-> 0, quantity |-> 0, salePrice |-> 0,
     subsidiaryId |-> 0, found |-> FALSE, readQty |-> 0,
     txSale |-> FALSE, txUpdate |-> FALSE, updateCommitted |-> FALSE,
     abortedAt |-> "", err |-> NoError]

\* the row a call inserts; call stands for the identity the serial id gives
SaleRow(c) ==
    [call |-> c.call, itemId |-> c.itemId, quantity |-> c.quantity,
     salePrice |-> c.salePrice, subsidiaryId |-> c.subsidiaryId]

\* if (inventoryItem.quantity < sale.quantity) throw
StockCheckDropped(stock, requested) == FALSE
StockCheckOffByOne(stock, requested) == stock + 1 < requested
StockCheckInclusive(stock, requested) == stock <= requested
InsufficientStock(stock, requested) == stock < requested

\* quantity: inventoryItem.quantity - sale.quantity
NewQuantityNoDecrement(stock, requested) == stock
NewQuantity(stock, requested) == stock - requested

\* the handle each statement of the transaction callback is issued on:
\* "tx" is buffered until commit, "db" is committed at once
InsertHandleOutsideTx == "db"
InsertHandle == "tx"
UpdateHandle == "tx"

Finished(c, e) == [c EXCEPT !.pc = "done", !.err = executeQuery(e)]

\* the call, the select of the item and the two checks on its result
CreateSaleRead(p, sale) ==
    /\ Alive
    /\ saleCall[p].pc = "idle"
    /\ \A q \in SaleCalls : q < p => saleCall[q].pc # "idle"
    /\ LET c == [IdleCall EXCEPT !.call = p, !.itemId = sale.itemId,
                                 !.quantity = sale.quantity,
                                 !.salePrice = sale.salePrice,
                                 !.subsidiaryId = sale.subsidiaryId]
       IN saleCall' = [saleCall EXCEPT ![p] =
            IF db = Undefined THEN Finished(c, ErrTypeError)
            ELSE IF sale.itemId \notin DOMAIN inventory
            THEN Finished(c, ErrItemNotFound)
            ELSE LET r == [c EXCEPT !.found = TRUE,
                                    !.readQty = inventory[sale.itemId].quantity]
                 IN IF InsufficientStock(r.readQty, sale.quantity)
                    THEN Finished(r, ErrInsufficientStock)
                    ELSE [r EXCEPT !.pc = "insert"]]
    /\ UNCHANGED <<envVars, userVars, connVars, users, subsidiaries, saleTables,
                   lastCall>>

\* tx.insert(sales).values(...).returning()
CreateSaleInsert(p) ==
    /\ Alive
    /\ saleCall[p].pc = "insert"
    /\ LET c == [saleCall[p] EXCEPT !.pc = "update"]
       IN IF InsertHandle = "tx"
          THEN /\ saleCall' = [saleCall EXCEPT ![p] = [c EXCEPT !.txSale = TRUE]]
               /\ UNCHANGED sales
          ELSE /\ saleCall' = [saleCall EXCEPT ![p] = c]
               /\ sales' = Append(sales, SaleRow(c))
    /\ UNCHANGED <<envVars, userVars, connVars, users, subsidiaries, inventory,
                   nextItemId, lastCall>>

\* the rows an update of item id to quantity q leaves in the table
SetQuantityAll(table, id, q) ==
    [i \in DOMAIN table |-> [table[i] EXCEPT !.quantity = q]]
SetQuantity(table, id, q) ==
    IF id \in DOMAIN table THEN [table EXCEPT ![id].quantity = q] ELSE table

\* tx.update(inventory).set({quantity: ...}).where(id = itemId)
CreateSaleUpdate(p) ==
    /\ Alive
    /\ saleCall[p].pc = "update"
    /\ LET c == [saleCall[p] EXCEPT !.pc = "commit"]
       IN IF UpdateHandle = "tx"
          THEN /\ saleCall' = [saleCall EXCEPT ![p] = [c EXCEPT !.txUpdate = TRUE]]
               /\ UNCHANGED inventory
          ELSE /\ saleCall' = [saleCall EXCEPT ![p] =
                                 [c EXCEPT !.updateCommitted = TRUE]]
               /\ inventory' = SetQuantity(inventory, c.itemId,
                                           NewQuantity(c.readQty, c.quantity))
    /\ UNCHANGED <<envVars, userVars, connVars, users, subsidiaries, nextItemId, sales,
                   lastCall>>

\* the callback returned: the buffered statements are committed together
CreateSaleCommit(p) ==
    /\ Alive
    /\ saleCall[p].pc = "commit"
    /\ LET c == saleCall[p]
       IN /\ sales' = IF c.txSale THEN Append(sales, SaleRow(c)) ELSE sales
          /\ inventory' = IF c.txUpdate
                          THEN SetQuantity(inventory, c.itemId,
                                           NewQuantity(c.readQty, c.quantity))
                          ELSE inventory
          /\ saleCall' = [saleCall EXCEPT ![p] =
                [c EXCEPT !.pc = "done", !.txSale = FALSE, !.txUpdate = FALSE,
                          !.updateCommitted = c.updateCommitted \/ c.txUpdate]]
    /\ UNCHANGED <<envVars, userVars, connVars, users, subsidiaries, nextItemId,
                   lastCall>>

\* a statement of the transaction (or its commit) fails: what was buffered
\* is rolled back and the error is rethrown
CreateSaleAbort(p) ==
    /\ Alive
    /\ saleCall[p].pc \in {"insert", "update", "commit"}
    /\ saleCall' = [saleCall EXCEPT ![p] =
          Finished([saleCall[p] EXCEPT !.txSale = FALSE, !.txUpdate = FALSE,
                                       !.abortedAt = saleCall[p].pc],
                   DriverFault)]
    /\ UNCHANGED <<envVars, userVars, connVars, users, subsidiaries, saleTables,
                   lastCall>>

\* ------------------------------------------------------ users: statements
Usernames == {"admin", "bob"}
Roles == {"mhc_admin", "subsidiary_admin", "staff"}
\* what the driver answers a statement with: nothing wrong, or an error
Faults == {NoError, DriverFault}

UserRow(id, user) ==
    [id |-> id, username |-> user.username, role |-> user.role,
     subsidiaryId |-> user.subsidiaryId]

HasId(rows, id) == \E i \in 1..Len(rows) : rows[i].id = id

\* select().from(users).where(eq(users.username, name))
UsersNamed(name) == SelectSeq(users, LAMBDA u : u.username = name)

\* select().from(users).where(eq(users.id, id))
UsersWithId(id) == SelectSeq(users, LAMBDA u : u.id = id)

\* the unique constraint on users.username
UsernameTaken(name) == UsersNamed(name) # <<>>

FirstRow(rows) == IF rows = <<>> THEN <<>> ELSE <<rows[1]>>

\* getUserByUsername: the error thrown, or the first row matched if any
GetUserByUsernameResult(name, fault) ==
    IF BranchError # NoError
    THEN [err |-> executeQuery(BranchError), row |-> <<>>]
    ELSE IF fault # NoError
    THEN [err |-> executeQuery(fault), row |-> <<>>]
    ELSE [err |-> NoError, row |-> FirstRow(UsersNamed(name))]

\* getUser, as getUserByUsername
GetUserResult(id, fault) ==
    IF BranchError # NoError
    THEN [err |-> executeQuery(BranchError), row |-> <<>>]
    ELSE IF fault # NoError
    THEN [err |-> executeQuery(fault), row |-> <<>>]
    ELSE [err |-> NoError, row |-> FirstRow(UsersWithId(id))]

\* createUser: the error thrown and the rows of the table afterwards
CreateUserResult(user, fault) ==
    IF BranchError # NoError
    THEN [err |-> executeQuery(BranchError), rows |-> users]
    ELSE IF fault # NoError
    THEN [err |-> executeQuery(fault), rows |-> users]
    ELSE IF UsernameTaken(user.username)
    THEN [err |-> executeQuery(UniqueViolation), rows |-> users]
    ELSE [err |-> NoError, rows |-> Append(users, UserRow(nextUserId, user))]

\* a Partial<InsertUser>: the fields present replace the row's
Absent == -1
NoPatch == [role |-> Undefined, subsidiaryId |-> Absent]
PatchInputs ==
    {NoPatch,
     [role |-> "mhc_admin", subsidiaryId |-> Absent],
     [role |-> "subsidiary_admin", subsidiaryId |-> Absent],
     [role |-> Undefined, subsidiaryId |-> NullId],
     [role |-> Undefined, subsidiaryId |-> NumTenants]}

ApplyPatch(row, patch) ==
    [row EXCEPT !.role = IF patch.role = Undefined THEN @ ELSE patch.role,
                !.subsidiaryId = IF patch.subsidiaryId = Absent THEN @
                                 ELSE patch.subsidiaryId]

\* update(users).set(user).where(eq(users.id, id))
SetUser(rows, id, patch) ==
    [i \in 1..Len(rows) |->
        IF rows[i].id = id THEN ApplyPatch(rows[i], patch) ELSE rows[i]]

\* updateUser under either engine branch: no row matched is an error (no
\* row returned under PostgreSQL, affectedRows === 0 under MySQL)
UpdateUserResult(branch, rows, id, patch) ==
    IF HasId(rows, id)
    THEN [err |-> NoError, rows |-> SetUser(rows, id, patch)]
    ELSE [err |-> ErrUserNotFound, rows |-> rows]

\* deleteUser under one engine branch: only the MySQL branch looks at the
\* number of rows deleted
DeleteUserResult(branch, rows, id) ==
    [rows |-> SelectSeq(rows, LAMBDA u : u.id # id),
     err |-> IF branch = "mysql" /\ ~HasId(rows, id)
             THEN ErrUserNotFound ELSE NoError]

\* ------------------------------------------------------ ensureDefaultAdmin
IdleRun ==
    [pc |-> "waiting", runs |-> 0, found |-> FALSE, created |-> FALSE,
     fault |-> NoError, err |-> NoError]

\* the user ensureDefaultAdmin creates
DefaultAdminAsStaff ==
    [username |-> "admin", role |-> "staff", subsidiaryId |-> NullId]
DefaultAdmin ==
    [username |-> "admin", role |-> "mhc_admin", subsidiaryId |-> NullId]

\* if (!adminUser)
AdminMissingAlways(row) == TRUE
AdminMissing(row) == row = <<>>

\* the call and its getUserByUsername("admin"); the catch rethrows
EnsureAdminLookup(fault) ==
    LET r == GetUserByUsernameResult(DefaultAdmin.username, fault)
        run == [IdleRun EXCEPT !.runs = adminRun.runs + 1, !.fault = fault]
    IN /\ adminRun' =
             IF r.err # NoError THEN [run EXCEPT !.pc = "done", !.err = r.err]
             ELSE IF AdminMissing(r.row) THEN [run EXCEPT !.pc = "create"]
             ELSE [run EXCEPT !.pc = "done", !.found = TRUE]
       /\ UNCHANGED <<envVars, connVars, users, subsidiaries, saleTables,
                      saleCall, lastCall, nextUserId, activityLogs, userReq>>

\* setTimeout(() => storage.ensureDefaultAdmin().catch(console.error), 1000):
\* the timer runs after the microtasks that settle the connection promise
BootstrapTimer(fault) ==
    /\ procState = "running"
    /\ adminRun.pc = "waiting"
    /\ EnsureAdminLookup(fault)

\* ensureDefaultAdmin called again once the previous run has returned
EnsureDefaultAdminAgain(fault) ==
    /\ Alive
    /\ adminRun.pc = "done"
    /\ adminRun.runs < MaxAdminRuns
    /\ EnsureAdminLookup(fault)

\* await this.createUser({username: "admin", ...})
EnsureAdminCreate(fault) ==
    /\ Alive
    /\ adminRun.pc = "create"
    /\ LET r == CreateUserResult(DefaultAdmin, fault)
       IN /\ r.err = NoError => nextUserId <= MaxUsers
          /\ users' = r.rows
          /\ nextUserId' = IF r.err = NoError THEN nextUserId + 1 ELSE nextUserId
          /\ adminRun' = [adminRun EXCEPT !.pc = "done", !.err = r.err,
                                          !.fault = fault,
                                          !.created = r.err = NoError]
    /\ UNCHANGED <<envVars, connVars, subsidiaries, saleTables, saleCall,
                   lastCall, activityLogs, userReq>>

\* ------------------------------------------------------ user routes
\* req.user, as the session gives it: the administrator of each
\* subsidiary, a staff member and the head-company administrator
Requesters ==
    [role : {"subsidiary_admin"}, subsidiaryId : TenantIds]
       \cup {[role |-> "staff", subsidiaryId |-> 1],
             [role |-> "mhc_admin", subsidiaryId |-> NullId]}

IdleReq ==
    [pc |-> "idle", kind |-> "none", subsidiaryId |-> 0, userId |-> 0,
     username |-> "", patch |-> NoPatch, status |-> 0]

\* requireSubsidiaryAccess, then the handler's own check of the role
Forbidden(user, sub) ==
    \/ user.role # "mhc_admin" /\ user.subsidiaryId # sub
    \/ user.role # "subsidiary_admin"

\* the response sent: the request is over
Respond(kind, status) == [IdleReq EXCEPT !.status = status]

\* if (!user || user.subsidiaryId !== subsidiaryId)
NotInSubsidiary(row, sub) == row = <<>> \/ row[1].subsidiaryId # sub

\* POST /api/subsidiaries/:subsidiaryId/users, up to the answer of
\* getUserByUsername
PostUserLookup(user, sub, username, fault) ==
    /\ Alive
    /\ userReq.pc = "idle"
    /\ LET r == GetUserByUsernameResult(username, fault)
       IN userReq' =
             IF Forbidden(user, sub) THEN Respond("post", 403)
             ELSE IF r.err # NoError THEN Respond("post", 400)
             ELSE IF r.row # <<>> THEN Respond("post", 400)
             ELSE [IdleReq EXCEPT !.pc = "createUser", !.kind = "post",
                                  !.subsidiaryId = sub, !.username = username]
    /\ UNCHANGED <<envVars, connVars, users, subsidiaries, saleTables,
                   saleCall, lastCall, nextUserId, activityLogs, adminRun>>

\* createUser({...req.body, subsidiaryId, role: "staff", password})
PostUserCreate(fault) ==
    /\ Alive
    /\ userReq.pc = "createUser"
    /\ LET r == CreateUserResult([username |-> userReq.username,
                                  role |-> "staff",
                                  subsidiaryId |-> userReq.subsidiaryId], fault)
       IN /\ r.err = NoError => nextUserId <= MaxUsers
          /\ users' = r.rows
          /\ nextUserId' = IF r.err = NoError THEN nextUserId + 1 ELSE nextUserId
          /\ userReq' = Respond("post", IF r.err = NoError THEN 201 ELSE 400)
    /\ UNCHANGED <<envVars, connVars, subsidiaries, saleTables, saleCall,
                   lastCall, activityLogs, adminRun>>

\* PATCH and DELETE /api/subsidiaries/:subsidiaryId/users/:userId, up to the
\* answer of getUser
UserLookup(kind, user, sub, userId, patch, fault) ==
    /\ Alive
    /\ userReq.pc = "idle"
    /\ LET r == GetUserResult(userId, fault)
       IN userReq' =
             IF Forbidden(user, sub) THEN Respond(kind, 403)
             ELSE IF r.err # NoError THEN Respond(kind, 400)
             ELSE IF NotInSubsidiary(r.row, sub) THEN Respond(kind, 404)
             ELSE [IdleReq EXCEPT !.pc = IF kind = "patch" THEN "updateUser"
                                         ELSE "deleteUser",
                                  !.kind = kind, !.subsidiaryId = sub,
                                  !.userId = userId, !.patch = patch]
    /\ UNCHANGED <<envVars, connVars, users, subsidiaries, saleTables,
                   saleCall, lastCall, nextUserId, activityLogs, adminRun>>

\* storage.updateUser(userId, updates): the body is passed on as it came
PatchUserUpdate(fault) ==
    /\ Alive
    /\ userReq.pc = "updateUser"
    /\ LET r == IF BranchError # NoError
                THEN [err |-> executeQuery(BranchError), rows |-> users]
                ELSE IF fault # NoError
                THEN [err |-> executeQuery(fault), rows |-> users]
                ELSE UpdateUserResult(EngineBranch, users, userReq.userId,
                                      userReq.patch)
       IN /\ users' = r.rows
          /\ userReq' = Respond("patch", IF r.err = NoError THEN 200 ELSE 400)
    /\ UNCHANGED <<envVars, connVars, subsidiaries, saleTables, saleCall,
                   lastCall, nextUserId, activityLogs, adminRun>>

\* storage.deleteUser(userId)
DeleteUserDelete(fault) ==
    /\ Alive
    /\ userReq.pc = "deleteUser"
    /\ LET r == IF BranchError # NoError
                THEN [err |-> executeQuery(BranchError), rows |-> users]
                ELSE IF fault # NoError
                THEN [err |-> executeQuery(fault), rows |-> users]
                ELSE DeleteUserResult(EngineBranch, users, userReq.userId)
       IN /\ users' = r.rows
          /\ userReq' = Respond("delete", IF r.err = NoError THEN 204 ELSE 400)
    /\ UNCHANGED <<envVars, connVars, subsidiaries, saleTables, saleCall,
                   lastCall, nextUserId, activityLogs, adminRun>>

\* ------------------------------------------------------ specification
Init ==
    /\ dbEngineEnv \in EngineEnvValues
    /\ databaseUrl \in BOOLEAN
    /\ procState = "starting"
    /\ exitCode = -1
    /\ initError = ""
    /\ db = Undefined
    /\ users = <<>>
    /\ subsidiaries = <<>>
    /\ inventory = <<>>
    /\ nextItemId = 1
    /\ sales = <<>>
    /\ saleCall = [p \in SaleCalls |-> IdleCall]
    /\ lastCall = NoCall
    /\ sessionStore = SessionStoreFor(config.engine, databaseUrl)
    /\ nextUserId = 1
    /\ activityLogs = <<>>
    /\ adminRun = IdleRun
    /\ userReq = IdleReq

Startup == InitResolved \/ InitRejected

InventoryCalls(items) ==
    \/ \E sub \in TenantIds, qty \in QtyInputs :
          nextItemId <= items /\ CreateInventory(sub, qty)
    \/ \E id \in 1..items, qty \in QtyInputs : UpdateInventory(id, qty)
    \/ \E id \in 1..items : DeleteInventory(id)

SaleSteps(items) ==
    \E p \in SaleCalls :
        \/ \E sale \in SaleInputs :
              sale.itemId <= items /\ CreateSaleRead(p, sale)
        \/ CreateSaleInsert(p)
        \/ CreateSaleUpdate(p)
        \/ CreateSaleCommit(p)
        \/ CreateSaleAbort(p)

AdminCalls ==
    \/ \E s \in SubsidiaryInputs : CreateSubsidiary(s)
    \/ ListSubsidiaries
    \/ \E id \in 1..2 : GetUser(id)
    \/ \E id \in 1..MaxSubsidiaries, status \in BOOLEAN : UpdateSubsidiary(id, status)

LogCalls ==
    \/ \E log \in LogInputs, fault \in Faults : CreateActivityLog(log, fault)
    \/ \E sub \in LogArgs : ListActivityLogs(sub)

\* the start-up bootstrap
BootstrapSteps ==
    \E fault \in Faults :
        \/ BootstrapTimer(fault)
        \/ EnsureAdminCreate(fault)

\* the user-management routes; a request that is refused whatever else it
\* carries is taken once, with the other inputs at their defaults
PostUserRoute ==
    \/ \E user \in Requesters, sub \in TenantIds, username \in Usernames,
          fault \in Faults :
          /\ Forbidden(user, sub) => (username = "bob" /\ fault = NoError)
          /\ PostUserLookup(user, sub, username, fault)
    \/ \E fault \in Faults : PostUserCreate(fault)

PatchDeleteUserRoutes ==
    \/ \E kind \in {"patch", "delete"}, user \in Requesters, sub \in TenantIds,
          userId \in 1..MaxUsers, patch \in PatchInputs, fault \in Faults :
          /\ kind = "delete" => patch = NoPatch
          /\ Forbidden(user, sub) => (userId = 1 /\ patch = NoPatch /\ fault = NoError)
          /\ (fault # NoError \/ NotInSubsidiary(FirstRow(UsersWithId(userId)), sub))
                => patch = NoPatch
          /\ UserLookup(kind, user, sub, userId, patch, fault)
    \/ \E fault \in Faults : PatchUserUpdate(fault)
    \/ \E fault \in Faults : DeleteUserDelete(fault)

UserRoutes == PostUserRoute \/ PatchDeleteUserRoutes

InventoryLists == \E sub \in TenantIds : ListInventoryBySubsidiary(sub)

Next ==
    \/ Startup
    \/ InventoryCalls(MaxItems)
    \/ InventoryLists
    \/ SaleSteps(MaxItems)
    \/ AdminCalls
    \/ LogCalls
    \/ BootstrapSteps
    \/ \E fault \in Faults : EnsureDefaultAdminAgain(fault)
    \/ UserRoutes

Spec == Init /\ [][Next]_vars

\* the sale transaction among inventory requests, under the two
\* configurations whose start-up can succeed
InitSale == Init /\ dbEngineEnv \in {"postgresql", "mysql"} /\ databaseUrl
NextSale == Startup \/ InventoryCalls(MaxSaleItems) \/ SaleSteps(MaxSaleItems)
SpecSale == InitSale /\ [][NextSale]_vars

\* subsidiary and user administration
NextAdmin == Startup \/ AdminCalls
SpecAdmin == Init /\ [][NextAdmin]_vars

\* inventory requests of two subsidiaries
NextInventory == Startup \/ InventoryCalls(MaxItems) \/ InventoryLists
SpecInventory == Init /\ [][NextInventory]_vars

\* ensureDefaultAdmin, at start-up and again, among user-management requests
NextUsers ==
    \/ Startup
    \/ BootstrapSteps
    \/ \E fault \in Faults : EnsureDefaultAdminAgain(fault)
    \/ UserRoutes
SpecUsers == InitSale /\ [][NextUsers]_vars

\* the start-up sequence: the connection promise settles and the timer
\* fires; every statement sent is eventually answered
NextBoot == Startup \/ BootstrapSteps \/ PostUserRoute
FairBoot ==
    /\ Init
    /\ [][NextBoot]_vars
    /\ WF_vars(Startup)
    /\ WF_vars(BootstrapSteps)

\* sales and audit records
NextLog ==
    \/ Startup
    \/ \E qty \in QtyInputs :
          nextItemId <= MaxSaleItems /\ CreateInventory(1, qty)
    \/ SaleSteps(MaxSaleItems)
    \/ \E log \in LogInputs, fault \in Faults : CreateActivityLog(log, fault)
SpecLog == InitSale /\ [][NextLog]_vars

\* requireSubsidiaryAccess: an mhc_admin, or a user of the subsidiary named
\* in the URL
SubsidiaryAccess(user, sub) ==
    user.role = "mhc_admin" \/ user.subsidiaryId = sub

\* POST /api/subsidiaries/:subsidiaryId/inventory
PostInventory(user, sub, qty) ==
    /\ SubsidiaryAccess(user, sub)
    /\ CreateInventory(sub, qty)

\* PATCH /api/subsidiaries/:subsidiaryId/inventory/:id
PatchInventory(user, sub, id, qty) ==
    /\ SubsidiaryAccess(user, sub)
    /\ UpdateInventory(id, qty)

\* DELETE /api/subsidiaries/:subsidiaryId/inventory/:id
DeleteInventoryById(user, sub, id) ==
    /\ SubsidiaryAccess(user, sub)
    /\ DeleteInventory(id)

\* the inventory routes, called by users of two subsidiaries
NextInventoryRoutes ==
    \/ Startup
    \/ \E user \in Requesters, sub \in TenantIds, qty \in QtyInputs :
          nextItemId <= MaxItems /\ PostInventory(user, sub, qty)
    \/ \E user \in Requesters, sub \in TenantIds, id \in ItemIds,
          qty \in QtyInputs : PatchInventory(user, sub, id, qty)
    \/ \E user \in Requesters, sub \in TenantIds, id \in ItemIds :
          DeleteInventoryById(user, sub, id)
SpecInventoryRoutes == InitSale /\ [][NextInventoryRoutes]_vars

\* the audit log read through the storage method, and through its route;
\* req.user is any row the users table can hold
AuditLogInputs == [subsidiaryId : {NullId} \cup TenantIds, action : {"sale"}]
AuditRequesters ==
    Requesters \cup [role : {"staff"}, subsidiaryId : {NullId, 0}]
\* GET /api/activity-logs, behind requireAuth: every log for an mhc_admin,
\* the logs of the requester's subsidiary otherwise
GetActivityLogs(user) ==
    /\ user.role \in Roles
    /\ ListActivityLogs(IF user.role = "mhc_admin" THEN Omitted
                        ELSE user.subsidiaryId)

NextAudit ==
    \/ Startup
    \/ \E log \in AuditLogInputs, fault \in Faults : CreateActivityLog(log, fault)
    \/ \E sub \in LogArgs : ListActivityLogs(sub)
SpecAudit == InitSale /\ [][NextAudit]_vars

NextAuditRoute ==
    \/ Startup
    \/ \E log \in AuditLogInputs, fault \in Faults : CreateActivityLog(log, fault)
    \/ \E user \in AuditRequesters : GetActivityLogs(user)
SpecAuditRoute == InitSale /\ [][NextAuditRoute]_vars

\* sales among the items of two subsidiaries
NextFrame ==
    \/ Startup
    \/ \E sub \in TenantIds, qty \in 0..MaxQty :
          nextItemId <= MaxItems /\ CreateInventory(sub, qty)
    \/ SaleSteps(MaxItems)
SpecFrame == InitSale /\ [][NextFrame]_vars

\* ====================================================== properties
SalePersisted(p) == \E k \in 1..Len(sales) : sales[k].call = p

RequestedRow(c) ==
    [call |-> c.call, itemId |-> c.itemId, quantity |-> c.quantity,
     salePrice |-> c.salePrice, subsidiaryId |-> c.subsidiaryId]

\* C1: in every reachable state every inventory item has quantity >= 0.
C1_QuantityNonNegative ==
    \A i \in DOMAIN inventory : inventory[i].quantity >= 0

\* C2: createSale never writes a negative quantity, in any interleaving: a
\* call whose requested quantity exceeds the stock it read is rejected, and
\* every quantity a createSale step writes is readQuantity - sale.quantity
\* and is >= 0.
C2_SaleWritesNonNegative ==
    [][\A p \in SaleCalls :
          saleCall'[p] # saleCall[p] =>
             /\ (saleCall'[p].found /\ saleCall'[p].quantity > saleCall'[p].readQty)
                   => (saleCall'[p].pc = "done"
                       /\ saleCall'[p].err = ErrInsufficientStock)
             /\ \A i \in DOMAIN inventory \cap DOMAIN inventory' :
                   inventory'[i] # inventory[i] =>
                      /\ i = saleCall'[p].itemId
                      /\ inventory'[i].quantity =
                            saleCall'[p].readQty - saleCall'[p].quantity
                      /\ inventory'[i].quantity >= 0]_vars

C2_Witness ==
    \E p \in SaleCalls :
        /\ saleCall[p].pc = "done" /\ saleCall[p].err = NoError
        /\ saleCall[p].quantity > 0
        /\ saleCall[p].itemId \in DOMAIN inventory
        /\ inventory[saleCall[p].itemId].quantity = 0
        /\ \E q \in SaleCalls : q # p /\ saleCall[q].err = ErrInsufficientStock

\* C3: the Sale insert and the quantity write of one createSale are atomic:
\* in every state the Sale row of a call is persisted exactly when its
\* quantity update is; a call that passed the checks ends either with both
\* persisted and no error, or with neither and the injected error rethrown.
C3_SaleAtomic ==
    \A p \in SaleCalls :
        /\ SalePersisted(p) <=> saleCall[p].updateCommitted
        /\ (saleCall[p].pc = "done" /\ saleCall[p].found
              /\ saleCall[p].quantity <= saleCall[p].readQty)
             => \/ saleCall[p].err = NoError /\ SalePersisted(p)
                \/ saleCall[p].err = DriverFault /\ ~SalePersisted(p)
                     /\ saleCall[p].abortedAt # ""

\* a fault between the insert and the update left nothing behind
C3_Witness ==
    \E p \in SaleCalls :
        /\ saleCall[p].pc = "done" /\ saleCall[p].abortedAt = "update"
        /\ saleCall[p].err = DriverFault
        /\ sales = <<>>
        /\ saleCall[p].itemId \in DOMAIN inventory
        /\ inventory[saleCall[p].itemId].quantity = saleCall[p].readQty
        /\ saleCall[p].quantity > 0

\* C4: a createSale of q against an item with stock s >= q that nothing
\* else touches passes the checks and, unless the driver fails, appends
\* exactly one Sale row with the requested itemId, quantity and salePrice
\* and leaves the item with quantity s - q.
C4_SaleEffect ==
    [][\A p \in SaleCalls :
          LET c == saleCall'[p] IN
          /\ (saleCall[p].pc = "idle" /\ c.pc # "idle" /\ c.found
                /\ c.readQty >= c.quantity) => c.pc = "insert"
          /\ (saleCall[p].pc = "commit" /\ c.pc = "done" /\ c.err = NoError
                /\ c.itemId \in DOMAIN inventory
                /\ inventory[c.itemId].quantity = c.readQty)
               => /\ sales' = Append(sales, RequestedRow(c))
                  /\ inventory' = [inventory EXCEPT ![c.itemId].quantity =
                                      inventory[c.itemId].quantity - c.quantity]]_vars

C4_Witness ==
    /\ saleCall[1].pc = "done" /\ saleCall[1].err = NoError
    /\ saleCall[1].quantity = 1 /\ saleCall[1].readQty = 2
    /\ \A q \in SaleCalls : q # 1 => saleCall[q].pc = "idle"
    /\ sales = <<RequestedRow(saleCall[1])>>
    /\ saleCall[1].itemId \in DOMAIN inventory
    /\ inventory[saleCall[1].itemId].quantity = 1

\* C5: createSale with sale.quantity greater than the item's current
\* quantity fails with the insufficient-stock error and leaves the inventory
\* and sales tables as they were; nothing of such a call is ever persisted.
C5_InsufficientStockRejected ==
    /\ [][\A p \in SaleCalls :
             LET c == saleCall'[p] IN
             (saleCall[p].pc = "idle" /\ c.pc # "idle" /\ db # Undefined
                /\ c.itemId \in DOMAIN inventory
                /\ c.quantity > inventory[c.itemId].quantity)
               => /\ c.pc = "done" /\ c.err = ErrInsufficientStock
                  /\ UNCHANGED <<inventory, sales>>]_vars
    /\ [](\A p \in SaleCalls :
             saleCall[p].err = ErrInsufficientStock
                => ~SalePersisted(p) /\ ~saleCall[p].updateCommitted)

C5_Witness ==
    \E p \in SaleCalls :
        /\ saleCall[p].pc = "done" /\ saleCall[p].err = ErrInsufficientStock
        /\ saleCall[p].readQty = 1 /\ saleCall[p].quantity = 2
        /\ saleCall[p].itemId \in DOMAIN inventory
        /\ inventory[saleCall[p].itemId].quantity = 1
        /\ ~SalePersisted(p)

\* C6: the stock check is not protected: whether a call succeeds is decided
\* by the quantity it read alone (requested <= read), whatever has been
\* committed since, and a call that succeeds has its Sale row committed; so
\* two calls that read the same stock both succeed and oversell it.
C6_CheckOnReadOnly ==
    \A p \in SaleCalls :
        (saleCall[p].pc = "done" /\ saleCall[p].found
           /\ saleCall[p].err # DriverFault)
          => /\ saleCall[p].err = NoError
                  <=> saleCall[p].quantity <= saleCall[p].readQty
             /\ saleCall[p].err = NoError => SalePersisted(p)

\* item 1 was created with stock 2 and never updated; both calls read 2,
\* both sold 2: 4 sold out of a stock of 2
C6_Witness ==
    /\ nextItemId = 2 /\ lastCall.op = "createInventory"
    /\ \A p \in {1, 2} :
          /\ saleCall[p].pc = "done" /\ saleCall[p].err = NoError
          /\ saleCall[p].itemId = 1 /\ saleCall[p].readQty = 2
          /\ saleCall[p].quantity = 2
          /\ SalePersisted(p)
    /\ 1 \in DOMAIN inventory /\ inventory[1].quantity = 0

\* C7: a createSubsidiary whose taxId an existing subsidiary already has
\* fails with the domain-specific conflict error ('Tax ID already exists'),
\* not the driver's error, under either engine, and the table is unchanged.
C7_DuplicateTaxIdConflict ==
    [][\A s \in SubsidiaryInputs :
          (/\ \A f \in {"name", "taxId", "email", "phoneNumber"} :
                 s[f] \notin {Undefined, ""}
           /\ db # Undefined
           /\ \E i \in 1..Len(subsidiaries) : subsidiaries[i].taxId = s.taxId
           /\ CreateSubsidiary(s))
          => /\ lastCall'.err = ErrTaxIdExists
             /\ subsidiaries' = subsidiaries]_vars

RequiredFieldEmpty(s) ==
    \E f \in {"name", "taxId", "email", "phoneNumber"} : s[f] \in {Undefined, ""}

\* C8: createSubsidiary with any of name, taxId, email or phoneNumber empty
\* or missing fails with the validation error before any database access,
\* also while the connection is not yet established; no row is written, so
\* no row of the table has an empty required field and listSubsidiaries
\* returns the table as it was.
C8_ValidationFirst ==
    /\ [][\A s \in SubsidiaryInputs :
             (RequiredFieldEmpty(s) /\ CreateSubsidiary(s))
               => /\ lastCall'.err = ErrMissingFields
                  /\ ~lastCall'.accessed
                  /\ subsidiaries' = subsidiaries]_vars
    /\ [](\A i \in 1..Len(subsidiaries) : ~RequiredFieldEmpty(subsidiaries[i]))
    /\ []((lastCall.op = "listSubsidiaries" /\ lastCall.err = NoError)
             => lastCall.result = subsidiaries)

\* rejected for its fields while the handle was still undefined
C8_Witness ==
    /\ lastCall.op = "createSubsidiary"
    /\ lastCall.err = ErrMissingFields
    /\ ~lastCall.ready /\ ~lastCall.accessed
    /\ db = Undefined /\ procState = "starting"
    /\ subsidiaries = <<>>

\* C9: every data-access operation invoked while the connection handle is
\* uninitialised fails with the 'connection not established' error (only
\* createSubsidiary's validation error may come first), as a rejected
\* result and without any database access.
C9_NotEstablishedError ==
    /\ (lastCall.op # "none" /\ ~lastCall.ready)
          => /\ ~lastCall.accessed
             /\ \/ lastCall.err \in {ErrNotEstablished, ErrNoConnection}
                \/ lastCall.op = "createSubsidiary"
                     /\ lastCall.err = ErrMissingFields
    /\ \A p \in SaleCalls : saleCall[p].err # ErrTypeError

\* C10: if creating the connection fails at start-up the process exits with
\* code 1, the handle is never set, and nothing runs after the exit.
C10_InitFailureFatal ==
    /\ [](initError # ""
            => procState = "exited" /\ exitCode = 1 /\ db = Undefined)
    /\ [][procState = "exited" => UNCHANGED vars]_vars
    /\ [][initError # "" => db' = Undefined]_vars

C10_Witness ==
    /\ initError = "DATABASE_URL must be set"
    /\ procState = "exited" /\ exitCode = 1 /\ db = Undefined
    /\ lastCall.op # "none"

\* C11: the shared handle is assigned at most once, for the engine resolved
\* from the configuration at start-up; once set it is never reassigned or
\* reset, and the engine the storage layer branches on is the engine of the
\* connection that was created.
C11_HandleFixed ==
    /\ [][db # Undefined => db' = db]_vars
    /\ [][db' # db => (procState = "starting"
                        /\ db' = loadDbConfig(dbEngineEnv))]_vars
    /\ [](db # Undefined => EngineBranch = db)

C11_Witness ==
    /\ db = "mysql" /\ procState = "running"
    /\ lastCall.op = "listSubsidiaries" /\ lastCall.ready
    /\ lastCall.err = NoError

AdminRows(rows) == SelectSeq(rows, LAMBDA u : u.username = "admin")

\* C12: ensureDefaultAdmin run any number of times in sequence leaves
\* exactly one user named 'admin': a run on a table without that user goes
\* on to create it (one row appended), a run on a table that has it ends
\* without changing the table, and every run that returns leaves one.
C12_BootstrapIdempotent ==
    [][adminRun' # adminRun =>
         /\ (adminRun.pc # "create" /\ adminRun'.err = NoError
               /\ AdminRows(users) # <<>>)
              => (adminRun'.pc = "done" /\ users' = users)
         /\ (adminRun.pc # "create" /\ adminRun'.err = NoError
               /\ AdminRows(users) = <<>>)
              => (adminRun'.pc = "create" /\ users' = users)
         /\ (adminRun.pc = "create" /\ adminRun'.err = NoError)
              => users' = Append(users,
                                 [id |-> nextUserId, username |-> "admin",
                                  role |-> "mhc_admin",
                                  subsidiaryId |-> NullId])
         /\ (adminRun'.pc = "done" /\ adminRun'.err = NoError)
              => Len(AdminRows(users')) = 1]_vars

\* the first run created the user, the second found it and left it alone
C12_Witness ==
    /\ adminRun.pc = "done" /\ adminRun.runs = 2 /\ adminRun.found
    /\ adminRun.err = NoError
    /\ users = <<[id |-> 1, username |-> "admin", role |-> "mhc_admin",
                  subsidiaryId |-> NullId]>>
    /\ nextUserId = 2

AdminProvisioned ==
    \E i \in 1..Len(users) :
        /\ users[i].username = "admin"
        /\ users[i].role = "mhc_admin"
        /\ users[i].subsidiaryId = NullId

C14_RoleSubsidiary ==
    \A i \in 1..Len(users) :
        /\ users[i].role \in {"staff", "subsidiary_admin"}
              => users[i].subsidiaryId # NullId
        /\ users[i].role = "mhc_admin" => users[i].subsidiaryId = NullId

\* C15: an update or delete whose target id does not exist fails with the
\* not-found error and leaves the tables unchanged, for updateUser,
\* updateSubsidiary, updateInventory, deleteUser and deleteInventory.
C15_MissingTargetNotFound ==
    /\ [][\A id \in ItemIds :
             (db # Undefined /\ id \notin DOMAIN inventory)
               => /\ DeleteInventory(id)
                       => (lastCall'.err = ErrItemNotFound
                           /\ inventory' = inventory)
                  /\ \A qty \in QtyInputs :
                       UpdateInventory(id, qty)
                         => (lastCall'.err = ErrItemNotFound
                             /\ inventory' = inventory)]_vars
    /\ [](db # Undefined =>
            /\ \A id \in 1..MaxUsers :
                  ~HasId(users, id)
                    => /\ DeleteUserResult(EngineBranch, users, id)
                            = [rows |-> users, err |-> ErrUserNotFound]
                       /\ \A patch \in PatchInputs :
                            UpdateUserResult(EngineBranch, users, id, patch)
                               = [err |-> ErrUserNotFound, rows |-> users]
            /\ \A id \in 1..MaxSubsidiaries :
                  ~(\E i \in 1..Len(subsidiaries) : subsidiaries[i].id = id)
                    => UpdateSubsidiaryResult(EngineBranch, subsidiaries, id, FALSE)
                          = [err |-> ErrSubsidiaryNotFound,
                             rows |-> subsidiaries])

\* C16: sales and activity logs are append-only: a row of either table in
\* one state is in every later state, at its place and with the same fields.
C16_AppendOnly ==
    [][/\ Len(sales') >= Len(sales)
       /\ SubSeq(sales', 1, Len(sales)) = sales
       /\ Len(activityLogs') >= Len(activityLogs)
       /\ SubSeq(activityLogs', 1, Len(activityLogs)) = activityLogs]_vars

C16_Witness ==
    /\ Len(sales) = 2 /\ Len(activityLogs) = 2
    /\ activityLogs[1] # activityLogs[2]
    /\ sales[1].quantity # sales[2].quantity
    /\ lastCall.op = "createActivityLog" /\ lastCall.err = DriverFault

\* C17: listInventoryBySubsidiary(id) returns exactly the inventory items
\* whose subsidiaryId is id, each once, whatever was created, updated or
\* deleted before.
C17_ListOwnItems ==
    [][\A sub \in TenantIds :
          (db # Undefined /\ ListInventoryBySubsidiary(sub))
            => LET res == lastCall'.result
                   own == {i \in DOMAIN inventory :
                             inventory[i].subsidiaryId = sub}
               IN /\ lastCall'.err = NoError
                  /\ {res[k] : k \in 1..Len(res)} = {inventory[i] : i \in own}
                  /\ Len(res) = Cardinality(own)]_vars

\* item 1 deleted, items of both subsidiaries left, one of them listed
C17_Witness ==
    /\ lastCall.op = "listInventoryBySubsidiary" /\ lastCall.err = NoError
    /\ Len(lastCall.result) = 1
    /\ Cardinality(DOMAIN inventory) = 2
    /\ \E i, j \in DOMAIN inventory :
          /\ inventory[i].subsidiaryId # inventory[j].subsidiaryId
          /\ lastCall.result[1] = inventory[j]

\* C18: every storage operation run with the MySQL engine selected yields
\* the same outcome and the same table contents as with PostgreSQL.
C18_EnginesAgree ==
    /\ \A id \in ItemIds :
          DeleteInventoryResult("mysql", inventory, id)
             = DeleteInventoryResult("postgresql", inventory, id)
    /\ \A id \in 1..MaxUsers :
          /\ DeleteUserResult("mysql", users, id)
                = DeleteUserResult("postgresql", users, id)
          /\ \A patch \in PatchInputs :
                UpdateUserResult("mysql", users, id, patch)
                   = UpdateUserResult("postgresql", users, id, patch)

\* C19: no storage operation swallows or retries a failure: the error the
\* database call fails with reaches the caller and nothing is written; a
\* createSale that fails inside the transaction ends with that error and no
\* Sale row, and a call that has returned sends no further statement.
C19_ErrorsPropagate ==
    /\ [][\A log \in LogInputs :
             (BranchError = NoError /\ CreateActivityLog(log, DriverFault))
               => (lastCall'.err = DriverFault
                   /\ activityLogs' = activityLogs)]_vars
    /\ [](\A p \in SaleCalls :
             saleCall[p].abortedAt # ""
               => /\ saleCall[p].pc = "done"
                  /\ saleCall[p].err = DriverFault
                  /\ ~SalePersisted(p))
    /\ [][\A p \in SaleCalls :
             saleCall[p].pc = "done"
               => (saleCall'[p] = saleCall[p]
                   /\ (SalePersisted(p) <=> \E k \in 1..Len(sales') :
                                               sales'[k].call = p))]_vars

C19_Witness ==
    /\ lastCall.op = "createActivityLog" /\ lastCall.err = DriverFault
    /\ lastCall.accessed /\ activityLogs = <<>>
    /\ \E p \in SaleCalls :
          /\ saleCall[p].abortedAt = "commit"
          /\ saleCall[p].err = DriverFault
          /\ sales = <<>>

\* C20 as stated: the session store is the database-backed store exactly
\* when the engine is PostgreSQL, and the memory store otherwise.
C20_StoreFollowsEngine ==
    sessionStore = "postgres" <=> config.engine = "postgresql"

\* C20 as amended: the database-backed store exactly when the engine is
\* PostgreSQL and DATABASE_URL is set, the memory store otherwise, so always
\* under MySQL; the store is never replaced, and in a running process it is
\* the database-backed one exactly when the connection is PostgreSQL.
C20_StoreFollowsEngineAndUrl ==
    /\ [](sessionStore = "postgres"
             <=> (loadDbConfig(dbEngineEnv) = "postgresql" /\ databaseUrl))
    /\ [](sessionStore \in {"postgres", "memory"})
    /\ [](loadDbConfig(dbEngineEnv) = "mysql" => sessionStore = "memory")
    /\ [](procState = "running"
             => (sessionStore = "postgres" <=> db = "postgresql"))
    /\ [][sessionStore' = sessionStore]_vars

\* MySQL selected while DATABASE_URL is set
C20_Witness ==
    /\ db = "mysql" /\ databaseUrl /\ procState = "running"
    /\ sessionStore = "memory"
    /\ lastCall.op # "none"

\* C21: a createSale call changes nothing but the quantity field of the one
\* Inventory row with id = sale.itemId and appends exactly one Sale row, and
\* only when it completes without error: every other Inventory row, the set
\* of items, and the User, Subsidiary and ActivityLog rows are unchanged by
\* every step of the call.
C21_SaleFrame ==
    [][\A p \in SaleCalls :
          saleCall'[p] # saleCall[p] =>
             LET c == saleCall'[p]
                 completed == c.pc = "done" /\ c.err = NoError
             IN /\ users' = users
                /\ subsidiaries' = subsidiaries
                /\ activityLogs' = activityLogs
                /\ DOMAIN inventory' = DOMAIN inventory
                /\ \A i \in DOMAIN inventory :
                      /\ i # c.itemId => inventory'[i] = inventory[i]
                      /\ inventory'[i] =
                            [inventory[i] EXCEPT
                                !.quantity = inventory'[i].quantity]
                /\ IF completed
                   THEN /\ Len(sales') = Len(sales) + 1
                        /\ SubSeq(sales', 1, Len(sales)) = sales
                        /\ sales'[Len(sales')].call = p
                   ELSE sales' = sales /\ inventory' = inventory]_vars

\* a sale of item 1 completed and changed its quantity while item 2, of the
\* other subsidiary, is in the table
C21_Witness ==
    /\ DOMAIN inventory = 1..MaxItems
    /\ inventory[1].subsidiaryId # inventory[2].subsidiaryId
    /\ \E p \in SaleCalls :
          /\ saleCall[p].pc = "done" /\ saleCall[p].err = NoError
          /\ saleCall[p].itemId = 1 /\ saleCall[p].quantity > 0
          /\ SalePersisted(p)
          /\ inventory[1].quantity = saleCall[p].readQty - saleCall[p].quantity
          /\ inventory[2].quantity # inventory[1].quantity

\* C22: a createSale call whose itemId matches no inventory row ends at once
\* with the error "Inventory item not found", whatever quantity it asks for:
\* it never passes the stock check, buffers no statement of a transaction,
\* and leaves the sales and inventory tables unchanged.
C22_ItemNotFoundFirst ==
    [][\A p \in SaleCalls :
          (/\ saleCall[p].pc = "idle" /\ saleCall'[p].pc # "idle"
           /\ db # Undefined
           /\ saleCall'[p].itemId \notin DOMAIN inventory)
             => /\ saleCall'[p].pc = "done"
                /\ saleCall'[p].err = "Inventory item not found"
                /\ ~saleCall'[p].found
                /\ ~saleCall'[p].txSale /\ ~saleCall'[p].txUpdate
                /\ sales' = sales
                /\ inventory' = inventory]_vars

\* a call for an item that was created and then deleted ended with the error
\* although it asked for more than any stock, and persisted nothing
C22_Witness ==
    \E p \in SaleCalls :
        /\ saleCall[p].pc = "done"
        /\ saleCall[p].err = "Inventory item not found"
        /\ saleCall[p].quantity = MaxQty
        /\ saleCall[p].itemId \notin DOMAIN inventory
        /\ saleCall[p].itemId < nextItemId
        /\ ~SalePersisted(p)

\* C23: listActivityLogs(subsidiaryId) returns exactly the log entries whose
\* subsidiaryId equals the argument whenever a number is supplied, 0
\* included, and all log entries only when the argument is omitted.
C23_FilterWheneverSupplied ==
    [][\A sub \in LogArgs \ {NullId} :
          (ListActivityLogs(sub) /\ lastCall'.err = NoError)
             => lastCall'.result =
                   IF sub = Omitted THEN activityLogs
                   ELSE SelectSeq(activityLogs,
                                  LAMBDA l : l.subsidiaryId = sub)]_vars

\* C30: for every requester whose role is not mhc_admin, whatever its
\* subsidiaryId holds (null and 0 included), GET /api/activity-logs returns
\* only log entries whose subsidiaryId equals the requester's.
C30_LogsTenantIsolated ==
    [][\A user \in AuditRequesters :
          (/\ user.role # "mhc_admin"
           /\ GetActivityLogs(user)
           /\ lastCall'.err = NoError)
             => \A k \in 1..Len(lastCall'.result) :
                   lastCall'.result[k].subsidiaryId = user.subsidiaryId]_vars

\* a sale of a positive quantity out of a stock that was not negative
Ordinary(c) == c.quantity > 0 /\ c.readQty >= 0

\* the step at which call p commits its transaction without error
Commits(p) ==
    /\ saleCall[p].pc = "commit"
    /\ saleCall'[p].pc = "done"
    /\ saleCall'[p].err = NoError

\* the sum of the quantities of the first k committed sales of an item
RECURSIVE SoldQty(_, _, _)
SoldQty(rows, k, item) ==
    IF k = 0 THEN 0
    ELSE SoldQty(rows, k - 1, item)
            + (IF rows[k].itemId = item THEN rows[k].quantity ELSE 0)

\* C24: a quantity v written by updateInventory is not lost to a concurrent
\* sale: when the one createSale(q) in progress commits after a successful
\* updateInventory, the item's quantity after the commit is v or v - q, v
\* being the quantity the commit found in the table (q positive, the
\* quantities in the table never negative).
C24_UpdateNotLost ==
    [][\A p \in SaleCalls :
          (/\ Commits(p)
           /\ Ordinary(saleCall[p])
           /\ \A r \in SaleCalls \ {p} : saleCall[r].pc = "idle"
           /\ lastCall.op = "updateInventory" /\ lastCall.err = NoError
           /\ saleCall[p].itemId \in DOMAIN inventory
           /\ inventory[saleCall[p].itemId].quantity >= 0)
             => LET item == saleCall[p].itemId
                    v == inventory[item].quantity
                IN inventory'[item].quantity \in {v, v - saleCall[p].quantity}]_vars

\* C25: with no updateInventory call, for every item the current quantity
\* plus the sum of the quantities of its committed sales never changes, so
\* it equals the quantity at creation: no committed sale's decrement is
\* lost, in any interleaving of concurrent createSale calls of positive
\* quantities.
C25_StockConserved ==
    [][\A i \in DOMAIN inventory :
          (\A p \in SaleCalls : saleCall'[p].pc # "idle" => Ordinary(saleCall'[p]))
          => inventory'[i].quantity + SoldQty(sales', Len(sales'), i)
             = inventory[i].quantity + SoldQty(sales, Len(sales), i)]_vars

\* C26: createSale never increases an item's quantity: when a call commits
\* on the stock it read, whatever quantity the request carried (zero and
\* negative included), the item's quantity after the commit is less than or
\* equal to its quantity before.
C26_SaleNeverIncreases ==
    [][\A p \in SaleCalls :
          (/\ Commits(p)
           /\ saleCall[p].readQty >= 0
           /\ saleCall[p].itemId \in DOMAIN inventory
           /\ inventory[saleCall[p].itemId].quantity = saleCall[p].readQty)
             => inventory'[saleCall[p].itemId].quantity
                   <= inventory[saleCall[p].itemId].quantity]_vars

\* C28: every Sale row committed carries the subsidiaryId of the inventory
\* item it references, as that item is at the commit.
C28_SaleInItemsSubsidiary ==
    [][\A p \in SaleCalls :
          (/\ Commits(p)
           /\ Ordinary(saleCall[p])
           /\ Len(sales') = Len(sales) + 1
           /\ saleCall[p].itemId \in DOMAIN inventory)
             => sales'[Len(sales')].subsidiaryId
                   = inventory[saleCall[p].itemId].subsidiaryId]_vars

\* C29: a committed Sale corresponds to a stock decrement of an item that
\* exists at the commit: whenever a call commits and its Sale row is
\* persisted, the item is in the table afterwards with the quantity the
\* call wrote, also when deleteInventory removed the item after the call
\* read its stock.
C29_SaleOfExistingItem ==
    [][\A p \in SaleCalls :
          (/\ Commits(p)
           /\ Ordinary(saleCall[p])
           /\ Len(sales') = Len(sales) + 1)
             => /\ saleCall[p].itemId \in DOMAIN inventory'
                /\ inventory'[saleCall[p].itemId].quantity
                      = saleCall[p].readQty - saleCall[p].quantity]_vars

\* C27: a user whose role is not mhc_admin changes or deletes only
\* inventory of its own subsidiary: whatever PATCH or DELETE request on
\* .../inventory/:id such a user sends, every item of another subsidiary is
\* in the table afterwards, unchanged.
C27_OwnInventoryOnly ==
    [][\A user \in Requesters, sub \in TenantIds, id \in ItemIds :
          (/\ user.role # "mhc_admin"
           /\ \/ \E qty \in QtyInputs : PatchInventory(user, sub, id, qty)
              \/ DeleteInventoryById(user, sub, id))
             => \A i \in DOMAIN inventory :
                   inventory[i].subsidiaryId # user.subsidiaryId
                      => (i \in DOMAIN inventory' /\ inventory'[i] = inventory[i])]_vars

====
